---- MODULE Spec2Model ----
(***************************************************************************)
(* Model of the training-plan generation pipeline of the Emmi backend:     *)
(*   api/plans/views.py     TrainingPlanGenerateView.post                  *)
(*   api/plans/services.py  TrainingPlanService, TrainingPlanThreadManager *)
(*   api/plans/models.py    Plan, Workout                                  *)
(*   api/utils/parsing.py   preprocess_yaml, parse_yaml_response_content   *)
(*                                                                         *)
(* Texts are sequences of tokens.  "yfence" is the opening fence           *)
(* ```yaml, "fence" is a bare ``` fence, "txt" is free text, "ws" is       *)
(* blank space, "bad" is a line the YAML scanner rejects (an unescaped     *)
(* quote), and "d1", "d3" are the serialisations of two plan documents.    *)
(***************************************************************************)
EXTENDS Integers, Sequences, FiniteSets, TLC

VARIABLES plans, workouts, runs, reqs, resp, win, mgr, rt, patch, call, inflight

vars == <<plans, workouts, runs, reqs, resp, win, mgr, rt, patch, call, inflight>>

(***************************************************************************)
(* Bounds of the model.                                                    *)
(***************************************************************************)
MaxPlans == 2
MaxPosts == 2
MaxReruns == 1
MaxDays == 14
MaxText == 2
NumThreads == 3

(***************************************************************************)
(* Program constants.                                                      *)
(***************************************************************************)
MaxWorkers == 3
StopAfterAttempt == 3
DefaultMaxAttempts == 3

NULL == "NULL"
NoTime == 0
NoDifficulty == 0

(***************************************************************************)
(* Users.  u1 has a first name, a profile and a completed onboarding;      *)
(* u2 has a profile with completed onboarding and an empty first name;     *)
(* u3 has a profile whose onboarding is not complete; u4 has no profile;    *)
(* u5 is like u1 but has no phone number on file.                          *)
(***************************************************************************)
Users == {"u1", "u2", "u3", "u4", "u5"}

HasFirstName(u) == u \in {"u1", "u3", "u4", "u5"}

HasProfile(u) == u # "u4"

OnboardingComplete(u) == u \in {"u1", "u2", "u5"}

HasPhone(u) == u \in {"u1", "u2"}

(***************************************************************************)
(* Documents a YAML block can load to.  A date of 0 is a value that is not *)
(* a calendar date (DateField validation rejects it).                      *)
(***************************************************************************)
BadDate == 0

DocTokens == {"d1", "d3"}

DocOf(tok) ==
    IF tok = "d1"
    THEN [reasoning |-> "r1", goal |-> "g1", sms_message |-> "m1",
          weeks |-> << [goal |-> "w1", week_start_date |-> 1,
                        dates |-> << [date |-> 1, workouts |-> <<"run", "strength">>],
                                     [date |-> 2, workouts |-> <<"rest">>] >>] >>]
    ELSE [reasoning |-> "r3", goal |-> "g3", sms_message |-> "m3",
          weeks |-> << [goal |-> "w1", week_start_date |-> 1,
                        dates |-> << [date |-> 1, workouts |-> <<"run">>],
                                     [date |-> BadDate, workouts |-> <<"rest">>] >>] >>]

IsMapping(tok) == tok \in DocTokens

(***************************************************************************)
(* Texts the models can reply with.                                        *)
(***************************************************************************)
TGood == <<"txt", "yfence", "d1", "fence", "txt">>
TPartial == <<"yfence", "d3", "fence">>
TBad == <<"yfence", "bad", "fence">>
TNested == <<"yfence", "d1", "fence", "txt", "fence">>
TNoFence == <<"txt">>
TEmpty == <<"yfence", "ws", "fence">>
TScalar == <<"yfence", "txt", "fence">>

PrimaryReplies == {TGood, TPartial, TBad, TNested, TNoFence, TEmpty, TScalar}

Fenced(block) == <<"yfence">> \o block \o <<"fence">>

RepairReplies(block) == {Fenced(block), TGood, TPartial, TBad, TNoFence, TEmpty}

(***************************************************************************)
(* api/utils/parsing.py                                                    *)
(***************************************************************************)
\* a search for "```" where the code searches for "```yaml"
FindAnyFence(text) ==
    IF \E i \in 1..Len(text) : text[i] \in {"fence", "yfence"}
    THEN CHOOSE i \in 1..Len(text) :
            /\ text[i] \in {"fence", "yfence"}
            /\ \A j \in 1..(i - 1) : text[j] \notin {"fence", "yfence"}
    ELSE 0

\* str.find("```yaml"): position of the first opening fence, 0 if absent
Find(text) ==
    IF \E i \in 1..Len(text) : text[i] = "yfence"
    THEN CHOOSE i \in 1..Len(text) :
            /\ text[i] = "yfence"
            /\ \A j \in 1..(i - 1) : text[j] # "yfence"
    ELSE 0

\* a search for the first triple backtick after the opening fence
RFindFirstAfterOpening(text) ==
    IF \E i \in (Find(text) + 1)..Len(text) : text[i] \in {"fence", "yfence"}
    THEN CHOOSE i \in (Find(text) + 1)..Len(text) :
            /\ text[i] \in {"fence", "yfence"}
            /\ \A j \in (Find(text) + 1)..(i - 1) : text[j] \notin {"fence", "yfence"}
    ELSE Find(text)

\* str.rfind("```"): the last triple backtick; "```yaml" starts with one
RFind(text) ==
    IF \E i \in 1..Len(text) : text[i] \in {"fence", "yfence"}
    THEN CHOOSE i \in 1..Len(text) :
            /\ text[i] \in {"fence", "yfence"}
            /\ \A j \in (i + 1)..Len(text) : text[j] \notin {"fence", "yfence"}
    ELSE 0

\* text[a:b] on tokens a..b-1 (empty when b <= a)
Slice(text, a, b) == [i \in 1..(IF b > a THEN b - a ELSE 0) |-> text[a + i - 1]]

preprocess_yaml(text) ==
    IF Find(text) = 0
    THEN [ok |-> FALSE, err |-> "No YAML block found", block |-> <<>>]
    ELSE IF RFind(text) # 0
         THEN [ok |-> TRUE, err |-> NULL,
               block |-> Slice(text, Find(text) + 1, RFind(text))]
         ELSE [ok |-> FALSE, err |-> "No valid YAML block found", block |-> <<>>]

NonBlank(block) == SelectSeq(block, LAMBDA t : t # "ws")

\* yaml.safe_load on a block: "syntax" is a yaml.YAMLError, "none" is a
\* document that loads to None, "doc" carries the loaded document
safe_load(block) ==
    IF \E i \in 1..Len(block) : block[i] \in {"bad", "fence", "yfence"}
    THEN [kind |-> "syntax", doc |-> NULL]
    ELSE IF NonBlank(block) = <<>>
         THEN [kind |-> "none", doc |-> NULL]
         ELSE IF Len(NonBlank(block)) = 1 /\ NonBlank(block)[1] \in DocTokens
              THEN [kind |-> "doc", doc |-> NonBlank(block)[1]]
              ELSE IF \A i \in 1..Len(NonBlank(block)) : NonBlank(block)[i] = "txt"
                   THEN [kind |-> "doc", doc |-> "scalar"]
                   ELSE [kind |-> "syntax", doc |-> NULL]

\* what the strict parse of a text finds
ParseKind(content) ==
    IF ~preprocess_yaml(content).ok THEN "nofence"
    ELSE safe_load(preprocess_yaml(content).block).kind

\* the exhaustion test written attempt_num > max_attempts
ParseOutcomeOffByOne(content, attempt_num, max_attempts) ==
    LET pre == preprocess_yaml(content)
        out == safe_load(pre.block)
    IN  IF ~pre.ok
        THEN [res |-> "raise", err |-> pre.err, doc |-> NULL]
        ELSE IF out.kind = "doc"
             THEN [res |-> "return", err |-> NULL, doc |-> out.doc]
             ELSE IF out.kind = "none"
                  THEN [res |-> "raise", err |-> "YAML block is empty", doc |-> NULL]
                  ELSE IF attempt_num > max_attempts
                       THEN [res |-> "raise", err |-> "Error parsing YAML", doc |-> NULL]
                       ELSE [res |-> "repair", err |-> NULL, doc |-> NULL]

\* One activation of parse_yaml_response_content up to its return, its raise
\* or its call of the repair model:
\*   "return" with the document, "raise" with the message,
\*   "repair" when the reformat model is to be invoked on the block.
ParseOutcome(content, attempt_num, max_attempts) ==
    LET pre == preprocess_yaml(content)
        out == safe_load(pre.block)
    IN  IF ~pre.ok
        THEN [res |-> "raise", err |-> pre.err, doc |-> NULL]
        ELSE IF out.kind = "doc"
             THEN [res |-> "return", err |-> NULL, doc |-> out.doc]
             ELSE IF out.kind = "none"
                  THEN [res |-> "raise", err |-> "YAML block is empty", doc |-> NULL]
                  ELSE IF attempt_num >= max_attempts
                       THEN [res |-> "raise", err |-> "Error parsing YAML", doc |-> NULL]
                       ELSE [res |-> "repair", err |-> NULL, doc |-> NULL]

(***************************************************************************)
(* The parser applied to a serialised document in a fenced block.          *)
(***************************************************************************)
\* yaml.dump(D): the block that loads back to the document
Dump(tok) == <<tok>>

\* the block between an opening ```yaml line and a closing ``` line
FencedBlock(tok) == <<"yfence", "ws">> \o Dump(tok) \o <<"ws", "fence">>

\* the texts that can surround the block: prose, blank lines, code fences
FreeTexts == UNION {[1..k -> {"txt", "ws", "fence", "yfence"}] : k \in 0..MaxText}

NoRoundTrip == [pc |-> "none", doc |-> NULL, before |-> <<>>, after |-> <<>>, out |-> NULL]

\* parse_yaml_response_content(content) with its default arguments, up to its
\* return, its raise or its first repair call
RoundTrip ==
    /\ rt.pc = "composed"
    /\ rt' = [rt EXCEPT !.pc = "parsed",
                        !.out = ParseOutcome(rt.before \o FencedBlock(rt.doc) \o rt.after,
                                             0, DefaultMaxAttempts)]
    /\ UNCHANGED <<plans, workouts, runs, reqs, resp, win, mgr, patch, call, inflight>>

(***************************************************************************)
(* A direct call parse_yaml_response_content(content, max_attempts=m,       *)
(* config=c) on any text: attempt_num, max_attempts and config are the     *)
(* arguments of the activation that is running, given is the max_attempts  *)
(* of the caller, traced lists for every repair call whether it got the    *)
(* caller's config, pre is what preprocess_yaml made of the caller's text. *)
(***************************************************************************)
MaxTokens == 3

MaxAttemptsArg == 4

TextTokens == {"txt", "ws", "fence", "yfence", "d1", "bad"}

Texts == UNION {[1..k -> TextTokens] : k \in 0..MaxTokens}

NoExtract == [ok |-> FALSE, err |-> NULL, block |-> <<>>]

NoCall == [pc |-> "none", text |-> <<>>, content |-> <<>>, attempt_num |-> 0,
           max_attempts |-> 0, given |-> 0, config |-> FALSE, traced |-> <<>>,
           repairs |-> 0, pre |-> NoExtract, err |-> NULL, doc |-> NULL]

\* one activation up to its return, its raise or its repair call
ParserCall ==
    LET out == ParseOutcome(call.content, call.attempt_num, call.max_attempts)
        pre == IF call.repairs = 0 THEN preprocess_yaml(call.content) ELSE call.pre
    IN  /\ call.pc = "called"
        /\ call' = [call EXCEPT !.pc = IF out.res = "return" THEN "returned"
                                       ELSE IF out.res = "raise" THEN "raised" ELSE "repair",
                                 !.pre = pre, !.err = out.err, !.doc = out.doc]
        /\ UNCHANGED <<plans, workouts, runs, reqs, resp, win, mgr, rt, patch, inflight>>

\* model.invoke(REFORMAT_YAML_PROMPT..., config=config) and the recursive
\* call parse_yaml_response_content(response.content, attempt_num + 1):
\* max_attempts and config take their defaults in the new activation
ParserRepair ==
    /\ call.pc = "repair"
    /\ \/ \E reply \in RepairReplies(preprocess_yaml(call.content).block) :
            call' = [call EXCEPT !.pc = "called", !.content = reply,
                                 !.repairs = @ + 1,
                                 !.traced = Append(@, call.config),
                                 !.attempt_num = @ + 1,
                                 !.max_attempts = DefaultMaxAttempts,
                                 !.config = FALSE]
       \/ call' = [call EXCEPT !.pc = "raised", !.repairs = @ + 1,
                                !.traced = Append(@, call.config),
                                !.err = "RepairModelError"]
    /\ UNCHANGED <<plans, workouts, runs, reqs, resp, win, mgr, rt, patch, inflight>>

(***************************************************************************)
(* api/plans/models.py                                                     *)
(***************************************************************************)
\* the filter generation_completed_at__isnull=True, generation_error__isnull=True
InProgress(row) == row.completed_at = NoTime /\ row.error = NULL

Terminal(row) == ~InProgress(row)

\* Plan.status
status(row) ==
    IF row.error # NULL THEN "error"
    ELSE IF row.completed_at # NoTime THEN "completed"
    ELSE "in progress"

\* Plan.objects.create(user=user): every generation field is null
NewPlan(u) == [user |-> u, completed_at |-> NoTime, error |-> NULL, plan_info |-> <<>>]

\* a save that updates the rows of the user instead of the row of the Plan
SaveByUser(p, obj) == [q \in DOMAIN plans |-> IF plans[q].user = obj.user THEN obj ELSE plans[q]]

\* Plan.save(): writes every field of the in-memory object to the row
Save(p, obj) == [plans EXCEPT ![p] = obj]

\* set_error that leaves generation_completed_at as it is
set_error_keeps_stamp(obj, msg) == [obj EXCEPT !.error = msg]

\* set_error without the assignment of the message
set_error_lost(obj, msg) == [obj EXCEPT !.completed_at = NoTime]

\* Plan.set_error on the in-memory object
set_error(obj, msg) == [obj EXCEPT !.error = msg, !.completed_at = NoTime]

\* mark_as_completed that leaves generation_error as it is
mark_keeps_error(obj, stamp) == [obj EXCEPT !.completed_at = stamp]

\* mark_as_completed without the assignment of the timestamp
mark_without_stamp(obj, stamp) == [obj EXCEPT !.error = NULL]

\* Plan.mark_as_completed on the in-memory object; stamp stands for now()
mark_as_completed(obj, stamp) == [obj EXCEPT !.completed_at = stamp, !.error = NULL]

\* Workout.objects.create(plan, date, workout_info): the tracking fields take
\* their defaults
NewWorkout(p, entry) ==
    [plan |-> p, date |-> entry.date, workout_info |-> entry.workout_info,
     completion_status |-> "not_completed", difficulty |-> NoDifficulty,
     additional_notes |-> NULL]

\* Workout.full_clean(): the date must be a calendar date
WorkoutValid(entry) == entry.date # BadDate

(***************************************************************************)
(* api/plans/services.py: TrainingPlanService.generate_training_plan       *)
(***************************************************************************)
\* the plan-level summary, workouts excluded
PlanInfo(doc) ==
    [reasoning |-> doc.reasoning, goal |-> doc.goal, sms_message |-> doc.sms_message,
     weeks |-> [i \in 1..Len(doc.weeks) |->
                  [goal |-> doc.weeks[i].goal,
                   week_start_date |-> doc.weeks[i].week_start_date]]]

\* an inner loop that stops after the first workout of a day
DayEntriesFirstOnly(day) == [i \in 1..1 |-> [date |-> day.date, workout_info |-> day.workouts[i]]]

\* for workout in date["workouts"]: the (date, workout) pairs of one day
DayEntries(day) == [i \in 1..Len(day.workouts) |-> [date |-> day.date, workout_info |-> day.workouts[i]]]

RECURSIVE DatesEntries(_)
DatesEntries(dates) ==
    IF dates = <<>> THEN <<>>
    ELSE DayEntries(Head(dates)) \o DatesEntries(Tail(dates))

RECURSIVE WeeksEntries(_)
WeeksEntries(weeks) ==
    IF weeks = <<>> THEN <<>>
    ELSE DatesEntries(Head(weeks).dates) \o WeeksEntries(Tail(weeks))

\* the (date, workout) pairs in the order of the three nested loops
WorkoutEntries(doc) == WeeksEntries(doc.weeks)

\* the rows of the Workout table that belong to plan p
WorkoutsOf(p) == SelectSeq(workouts, LAMBDA w : w.plan = p)

RunIds == 1..Len(runs)

PlanIds == 1..Len(plans)

Active(r) == runs[r].pooled /\ runs[r].pc \notin {"queued", "done"}

NewRun(p, obj, pooled) ==
    [plan |-> p, pc |-> IF pooled THEN "queued" ELSE "start", pooled |-> pooled,
     entry |-> status(obj), txn |-> FALSE,
     obj |-> obj, attempts |-> 0, replies |-> 0, content |-> <<>>, attempt_num |-> 0,
     max_attempts |-> DefaultMaxAttempts, repairs |-> 0, hist |-> <<>>,
     echo |-> TRUE,
     plan_data |-> NULL, cursor |-> 0, ret |-> "pending", aborted |-> FALSE,
     raised |-> NULL, sms |-> "none", tracked |-> "none"]

\* the locals of parse_yaml_response_content are gone once it returns or raises
Leave(run) == [run EXCEPT !.content = <<>>, !.attempt_num = 0,
                          !.max_attempts = DefaultMaxAttempts]

\* the except branch: plan.set_error(...), return None
\* an except branch that returns None without plan.set_error(...)
FailWithoutSetError(r, run, msg) ==
    /\ runs' = [runs EXCEPT ![r] = [Leave(run) EXCEPT !.pc = "done", !.ret = "None",
                                                      !.raised = msg]]
    /\ plans' = plans

FailWith(r, run, msg) ==
    LET obj == set_error(run.obj, msg)
    IN  /\ runs' = [runs EXCEPT ![r] = [Leave(run) EXCEPT !.obj = obj, !.pc = "done",
                                                          !.ret = "None", !.raised = msg]]
        /\ plans' = Save(run.plan, obj)

Fail(r, msg) == FailWith(r, runs[r], msg)

\* a pool that starts a thread for every submitted task
DequeueUnbounded(r) ==
    /\ runs[r].pc = "queued"
    /\ \A q \in 1..(r - 1) : runs[q].pc # "queued"
    /\ runs' = [runs EXCEPT ![r] = [@ EXCEPT !.pc = "start"]]
    /\ UNCHANGED <<plans, workouts, reqs, resp, win, mgr, rt, patch, call, inflight>>

\* a worker of the pool takes the oldest queued task
Dequeue(r) ==
    /\ runs[r].pc = "queued"
    /\ \A q \in 1..(r - 1) : runs[q].pc # "queued"
    /\ Cardinality({q \in RunIds : Active(q)}) < MaxWorkers
    /\ runs' = [runs EXCEPT ![r] = [@ EXCEPT !.pc = "start"]]
    /\ UNCHANGED <<plans, workouts, reqs, resp, win, mgr, rt, patch, call, inflight>>

\* a run that goes to the entry guard without validating its input
StartUnvalidated(r) ==
    LET p == runs[r].plan
        u == plans[p].user
    IN  /\ runs[r].pc = "start"
        /\ runs' = [runs EXCEPT ![r] = [@ EXCEPT !.pc = "guard", !.txn = TRUE]]
        /\ UNCHANGED <<plans, workouts, reqs, resp, win, mgr, rt, patch, call, inflight>>

\* input validation; a valid run enters the block of transaction.atomic()
Start(r) ==
    LET p == runs[r].plan
        u == plans[p].user
    IN  /\ runs[r].pc = "start"
        /\ IF ~(HasFirstName(u) /\ HasProfile(u) /\ OnboardingComplete(u))
           THEN Fail(r, "ValidationError")
           ELSE /\ runs' = [runs EXCEPT ![r] = [@ EXCEPT !.pc = "guard", !.txn = TRUE]]
                /\ UNCHANGED plans
        /\ UNCHANGED <<workouts, reqs, resp, win, mgr, rt, patch, call, inflight>>

\* an entry guard whose transaction stays open for the rest of the run
GuardHoldsTransaction(r) ==
    LET p == runs[r].plan
        u == plans[p].user
    IN  /\ runs[r].pc = "guard"
        /\ IF \E q \in PlanIds : q # p /\ plans[q].user = u /\ InProgress(plans[q])
           THEN runs' = [runs EXCEPT ![r] = [@ EXCEPT !.pc = "done", !.ret = "None",
                                                      !.aborted = TRUE, !.txn = FALSE]]
           ELSE runs' = [runs EXCEPT ![r] = [@ EXCEPT !.pc = "invoke"]]
        /\ UNCHANGED <<plans, workouts, reqs, resp, win, mgr, rt, patch, call, inflight>>

\* the entry guard: the query inside transaction.atomic(); the block is left
\* by the early return or by falling through
Guard(r) ==
    LET p == runs[r].plan
        u == plans[p].user
    IN  /\ runs[r].pc = "guard"
        /\ IF \E q \in PlanIds : q # p /\ plans[q].user = u /\ InProgress(plans[q])
           THEN runs' = [runs EXCEPT ![r] = [@ EXCEPT !.pc = "done", !.ret = "None",
                                                      !.aborted = TRUE, !.txn = FALSE]]
           ELSE runs' = [runs EXCEPT ![r] = [@ EXCEPT !.pc = "invoke", !.txn = FALSE]]
        /\ UNCHANGED <<plans, workouts, reqs, resp, win, mgr, rt, patch, call, inflight>>

\* a retry wrapper that gives up one failed attempt too late
InvokeOffByOne(r) ==
    /\ runs[r].pc = "invoke"
    /\ \/ \E reply \in PrimaryReplies :
            /\ runs' = [runs EXCEPT ![r] = [@ EXCEPT !.attempts = 0, !.content = reply,
                                                     !.replies = @ + 1, !.pc = "parse"]]
            /\ UNCHANGED plans
       \/ IF runs[r].attempts + 1 > StopAfterAttempt
          THEN FailWith(r, [runs[r] EXCEPT !.attempts = @ + 1], "ModelError")
          ELSE /\ runs' = [runs EXCEPT ![r] = [@ EXCEPT !.attempts = @ + 1]]
               /\ UNCHANGED plans
    /\ UNCHANGED <<workouts, reqs, resp, win, mgr, rt, patch, call, inflight>>

\* one attempt of the primary model call under with_retry(stop_after_attempt=3);
\* attempts is the counter of the retry wrapper, gone once the call returns,
\* replies counts the replies the primary model has given to this run
Invoke(r) ==
    /\ runs[r].pc = "invoke"
    /\ \/ \E reply \in PrimaryReplies :
            /\ runs' = [runs EXCEPT ![r] = [@ EXCEPT !.attempts = 0, !.content = reply,
                                                     !.replies = @ + 1, !.pc = "parse"]]
            /\ UNCHANGED plans
       \/ IF runs[r].attempts + 1 >= StopAfterAttempt
          THEN FailWith(r, [runs[r] EXCEPT !.attempts = @ + 1], "ModelError")
          ELSE /\ runs' = [runs EXCEPT ![r] = [@ EXCEPT !.attempts = @ + 1]]
               /\ UNCHANGED plans
    /\ UNCHANGED <<workouts, reqs, resp, win, mgr, rt, patch, call, inflight>>

\* a run that calls the primary model again when the reply does not parse
ParseRetriesPrimary(r) ==
    LET out == ParseOutcome(runs[r].content, runs[r].attempt_num, runs[r].max_attempts)
        seen == Append(runs[r].hist, ParseKind(runs[r].content))
    IN  /\ runs[r].pc = "parse"
        /\ IF out.res = "raise"
           THEN FailWith(r, [runs[r] EXCEPT !.hist = seen], out.err)
           ELSE IF out.res = "return"
                THEN /\ runs' = [runs EXCEPT ![r] = [Leave(@) EXCEPT !.plan_data = out.doc,
                                                     !.hist = seen, !.pc = "persist"]]
                     /\ UNCHANGED plans
                ELSE /\ runs' = [runs EXCEPT ![r] = [Leave(@) EXCEPT !.hist = seen,
                                                     !.pc = "invoke"]]
                     /\ UNCHANGED plans
        /\ UNCHANGED <<workouts, reqs, resp, win, mgr, rt, patch, call, inflight>>

\* parse_yaml_response_content up to its return, raise or repair call
Parse(r) ==
    LET out == ParseOutcome(runs[r].content, runs[r].attempt_num, runs[r].max_attempts)
        seen == Append(runs[r].hist, ParseKind(runs[r].content))
    IN  /\ runs[r].pc = "parse"
        /\ IF out.res = "raise"
           THEN FailWith(r, [runs[r] EXCEPT !.hist = seen], out.err)
           ELSE IF out.res = "return"
                THEN /\ runs' = [runs EXCEPT ![r] = [Leave(@) EXCEPT !.plan_data = out.doc,
                                                     !.hist = seen, !.pc = "persist"]]
                     /\ UNCHANGED plans
                ELSE /\ runs' = [runs EXCEPT ![r] = [@ EXCEPT !.hist = seen, !.pc = "repair"]]
                     /\ UNCHANGED plans
        /\ UNCHANGED <<workouts, reqs, resp, win, mgr, rt, patch, call, inflight>>

\* the reformat model call and the recursive call
\* parse_yaml_response_content(response.content, attempt_num + 1)
Repair(r) ==
    LET block == preprocess_yaml(runs[r].content).block
    IN  /\ runs[r].pc = "repair"
        /\ \/ \E reply \in RepairReplies(block) :
                /\ runs' = [runs EXCEPT ![r] = [@ EXCEPT !.repairs = @ + 1,
                                !.content = reply, !.echo = @ /\ reply = Fenced(block),
                                !.attempt_num = @ + 1,
                                !.max_attempts = DefaultMaxAttempts, !.pc = "parse"]]
                /\ UNCHANGED plans
           \/ FailWith(r, [runs[r] EXCEPT !.repairs = @ + 1], "RepairModelError")
        /\ UNCHANGED <<workouts, reqs, resp, win, mgr, rt, patch, call, inflight>>

\* plan.plan_info = plan_info; plan.save()
SavePlanInfo(r) ==
    /\ runs[r].pc = "persist"
    /\ IF ~IsMapping(runs[r].plan_data)
       THEN Fail(r, "TypeError")
       ELSE LET obj == [runs[r].obj EXCEPT !.plan_info = <<PlanInfo(DocOf(runs[r].plan_data))>>]
            IN  /\ runs' = [runs EXCEPT ![r] = [@ EXCEPT !.obj = obj, !.pc = "workouts"]]
                /\ plans' = Save(runs[r].plan, obj)
    /\ UNCHANGED <<workouts, reqs, resp, win, mgr, rt, patch, call, inflight>>

\* one iteration of the loops: Workout.objects.create(plan, date, workout_info)
CreateWorkout(r) ==
    LET entries == WorkoutEntries(DocOf(runs[r].plan_data))
        entry == entries[runs[r].cursor + 1]
    IN  /\ runs[r].pc = "workouts"
        /\ runs[r].cursor < Len(entries)
        /\ IF WorkoutValid(entry)
           THEN /\ workouts' = Append(workouts, NewWorkout(runs[r].plan, entry))
                /\ runs' = [runs EXCEPT ![r] = [@ EXCEPT !.cursor = @ + 1]]
                /\ UNCHANGED plans
           ELSE /\ Fail(r, "WorkoutValidationError")
                /\ UNCHANGED workouts
        /\ UNCHANGED <<reqs, resp, win, mgr, rt, patch, call, inflight>>

\* a run that marks its Plan completed before the loops have ended
MarkCompletedEarly(r) ==
    LET obj == mark_as_completed(runs[r].obj, r)
    IN  /\ runs[r].pc = "workouts"
        /\ runs' = [runs EXCEPT ![r] = [@ EXCEPT !.obj = obj, !.pc = "notify"]]
        /\ plans' = Save(runs[r].plan, obj)
        /\ UNCHANGED <<workouts, reqs, resp, win, mgr, rt, patch, call, inflight>>

\* plan.mark_as_completed() after the loops
MarkCompleted(r) ==
    LET obj == mark_as_completed(runs[r].obj, r)
    IN  /\ runs[r].pc = "workouts"
        /\ runs[r].cursor = Len(WorkoutEntries(DocOf(runs[r].plan_data)))
        /\ runs' = [runs EXCEPT ![r] = [@ EXCEPT !.obj = obj, !.pc = "notify"]]
        /\ plans' = Save(runs[r].plan, obj)
        /\ UNCHANGED <<workouts, reqs, resp, win, mgr, rt, patch, call, inflight>>

\* a run that returns the plan without tracking when the send has failed
NotifySkipsTrackOnFailure(r) ==
    /\ runs[r].pc = "notify"
    /\ IF ~HasPhone(plans[runs[r].plan].user)
       THEN runs' = [runs EXCEPT ![r] = [@ EXCEPT !.sms = "skipped", !.pc = "track"]]
       ELSE \/ runs' = [runs EXCEPT ![r] = [@ EXCEPT !.sms = "sent", !.pc = "track"]]
            \/ runs' = [runs EXCEPT ![r] = [@ EXCEPT !.sms = "failed", !.pc = "done",
                                                     !.ret = "plan"]]
    /\ UNCHANGED <<plans, workouts, reqs, resp, win, mgr, rt, patch, call, inflight>>

\* a send_plan_notification that sends without looking at the phone number
NotifyNoPhoneCheck(r) ==
    /\ runs[r].pc = "notify"
    /\ \E ok \in BOOLEAN :
         runs' = [runs EXCEPT ![r] = [@ EXCEPT !.sms = IF ok THEN "sent" ELSE "failed",
                                               !.pc = "track"]]
    /\ UNCHANGED <<plans, workouts, reqs, resp, win, mgr, rt, patch, call, inflight>>

\* send_plan_notification: False without a phone number, errors are caught
Notify(r) ==
    /\ runs[r].pc = "notify"
    /\ IF ~HasPhone(plans[runs[r].plan].user)
       THEN runs' = [runs EXCEPT ![r] = [@ EXCEPT !.sms = "skipped", !.pc = "track"]]
       ELSE \E ok \in BOOLEAN :
              runs' = [runs EXCEPT ![r] = [@ EXCEPT !.sms = IF ok THEN "sent" ELSE "failed",
                                                    !.pc = "track"]]
    /\ UNCHANGED <<plans, workouts, reqs, resp, win, mgr, rt, patch, call, inflight>>

\* a tracking failure that reaches the outer except branch
TrackEscalates(r) ==
    /\ runs[r].pc = "track"
    /\ \/ runs' = [runs EXCEPT ![r] = [@ EXCEPT !.tracked = "yes", !.pc = "done",
                                                !.ret = "plan"]]
          /\ UNCHANGED plans
       \/ FailWith(r, [runs[r] EXCEPT !.tracked = "failed"], "TrackError")
    /\ UNCHANGED <<workouts, reqs, resp, win, mgr, rt, patch, call, inflight>>

\* MixpanelService().track(...) in its own try/except; return plan
Track(r) ==
    /\ runs[r].pc = "track"
    /\ \E ok \in BOOLEAN :
         runs' = [runs EXCEPT ![r] = [@ EXCEPT !.tracked = IF ok THEN "yes" ELSE "failed",
                                               !.pc = "done", !.ret = "plan"]]
    /\ UNCHANGED <<plans, workouts, reqs, resp, win, mgr, rt, patch, call, inflight>>

(***************************************************************************)
(* api/plans/views.py: TrainingPlanGenerateView.post                       *)
(***************************************************************************)
PendingPosts == reqs["u1"] + reqs["u2"] + reqs["u3"] + reqs["u4"] + reqs["u5"]

\* a post() that checks the profile but not the Plans in progress
PostCheckProfileOnly(u) ==
    /\ reqs[u] < MaxPosts
    /\ Len(plans) + PendingPosts < MaxPlans
    /\ IF ~HasProfile(u) \/ ~OnboardingComplete(u)
       THEN /\ resp' = [user |-> u, status |-> 400, plan |-> 0, submit |-> "none"]
            /\ UNCHANGED reqs
       ELSE /\ reqs' = [reqs EXCEPT ![u] = @ + 1]
            /\ UNCHANGED resp
    /\ UNCHANGED <<plans, workouts, runs, win, mgr, rt, patch, call, inflight>>

\* a post() that checks the Plans in progress but not the profile
PostCheckNoProfile(u) ==
    /\ reqs[u] < MaxPosts
    /\ Len(plans) + PendingPosts < MaxPlans
    /\ IF \E q \in PlanIds : plans[q].user = u /\ InProgress(plans[q])
       THEN /\ resp' = [user |-> u, status |-> 400, plan |-> 0, submit |-> "none"]
            /\ UNCHANGED reqs
       ELSE /\ reqs' = [reqs EXCEPT ![u] = @ + 1]
            /\ UNCHANGED resp
    /\ UNCHANGED <<plans, workouts, runs, win, mgr, rt, patch, call, inflight>>

\* the two checks of post(); a request that passes them goes on to create
PostCheck(u) ==
    /\ reqs[u] < MaxPosts
    /\ Len(plans) + PendingPosts < MaxPlans
    /\ IF ~HasProfile(u) \/ ~OnboardingComplete(u)
       THEN /\ resp' = [user |-> u, status |-> 400, plan |-> 0, submit |-> "none"]
            /\ UNCHANGED reqs
       ELSE IF \E q \in PlanIds : plans[q].user = u /\ InProgress(plans[q])
            THEN /\ resp' = [user |-> u, status |-> 400, plan |-> 0, submit |-> "none"]
                 /\ UNCHANGED reqs
            ELSE /\ reqs' = [reqs EXCEPT ![u] = @ + 1]
                 /\ UNCHANGED resp
    /\ UNCHANGED <<plans, workouts, runs, win, mgr, rt, patch, call, inflight>>

\* a generate_training_plan_async that lets the failure of submit reach post()
PostCreateRaises(u) ==
    /\ reqs[u] > 0
    /\ reqs' = [reqs EXCEPT ![u] = @ - 1]
    /\ plans' = Append(plans, NewPlan(u))
    /\ \/ /\ runs' = Append(runs, NewRun(Len(plans) + 1, NewPlan(u), TRUE))
          /\ resp' = [user |-> u, status |-> 201, plan |-> Len(plans) + 1, submit |-> "ok"]
       \/ /\ runs' = runs
          /\ resp' = [user |-> u, status |-> 500, plan |-> 0, submit |-> "raised"]
    /\ UNCHANGED <<workouts, win, mgr, rt, patch, call, inflight>>

\* Plan.objects.create(user=user); generate_training_plan_async(plan); 201.
\* self._executor.submit(...) either queues the run or raises; the exception
\* is caught and logged inside generate_training_plan_async
PostCreate(u) ==
    /\ reqs[u] > 0
    /\ reqs' = [reqs EXCEPT ![u] = @ - 1]
    /\ plans' = Append(plans, NewPlan(u))
    /\ \/ /\ runs' = Append(runs, NewRun(Len(plans) + 1, NewPlan(u), TRUE))
          /\ resp' = [user |-> u, status |-> 201, plan |-> Len(plans) + 1, submit |-> "ok"]
       \/ /\ runs' = runs
          /\ resp' = [user |-> u, status |-> 201, plan |-> Len(plans) + 1, submit |-> "logged"]
    /\ UNCHANGED <<workouts, win, mgr, rt, patch, call, inflight>>

(***************************************************************************)
(* api/plans/views.py: WorkoutDetailView.update (PATCH) with               *)
(* api/plans/serializers.py: WorkoutSerializer.  A request body gives each *)
(* field a value or leaves it out.                                         *)
(***************************************************************************)
PatchFields == {"workout_info", "date", "plan", "completion_status", "difficulty"}

\* the request bodies: has is the set of fields the body carries; a field
\* the body does not carry has the first value of its set
PatchBodies ==
    {b \in [has : SUBSET PatchFields, workout_info : {"edited"}, date : {9}, plan : {2},
            completion_status : {"completed", "done?"}, difficulty : {10, 11}] :
        /\ "completion_status" \notin b.has => b.completion_status = "completed"
        /\ "difficulty" \notin b.has => b.difficulty = 10}

\* the users who send PATCH requests: the owner of Plan 1 and another user
Patchers == {"u1", "u5"}

\* Workout.CompletionStatus.choices
CompletionStatuses == {"completed", "modified", "skipped", "not_completed"}

NoBody == [has |-> {}, workout_info |-> "edited", date |-> 9, plan |-> 2,
           completion_status |-> "completed", difficulty |-> 10]

NoPatch == [user |-> NULL, workout |-> 0, data |-> NoBody, status |-> 0]

\* IsPlanOwner: the plan of the URL belongs to the requesting user
IsPlanOwner(u, row) == plans[row.plan].user = u

\* data.pop('workout_info'); data.pop('date')
Popped(data) == [data EXCEPT !.has = @ \ {"workout_info", "date"}]

\* a serializer without read_only_fields
WritableAll(data) == data

\* read_only_fields = ['workout_info', 'date', 'plan', 'id', 'created_at']:
\* the serializer ignores them in the input
Writable(data) == [data EXCEPT !.has = @ \ {"workout_info", "date", "plan"}]

\* serializer.is_valid(): validate_completion_status, validate_difficulty
PatchValid(data) ==
    /\ "completion_status" \in data.has => data.completion_status \in CompletionStatuses
    /\ "difficulty" \in data.has => (data.difficulty >= 1 /\ data.difficulty <= 10)

\* perform_update: the validated fields are assigned and the row is saved
PatchApply(row, data) ==
    [plan |-> IF "plan" \in data.has THEN data.plan ELSE row.plan,
     date |-> IF "date" \in data.has THEN data.date ELSE row.date,
     workout_info |-> IF "workout_info" \in data.has THEN data.workout_info
                      ELSE row.workout_info,
     completion_status |-> IF "completion_status" \in data.has THEN data.completion_status
                           ELSE row.completion_status,
     difficulty |-> IF "difficulty" \in data.has THEN data.difficulty ELSE row.difficulty,
     additional_notes |-> row.additional_notes]

\* PATCH /plans/<plan_id>/workouts/<workout_id>/ by user u with body data
Patch(u, i, data) ==
    /\ IF ~IsPlanOwner(u, workouts[i])
       THEN /\ patch' = [user |-> u, workout |-> i, data |-> data, status |-> 403]
            /\ UNCHANGED workouts
       ELSE IF ~PatchValid(Writable(Popped(data)))
            THEN /\ patch' = [user |-> u, workout |-> i, data |-> data, status |-> 400]
                 /\ UNCHANGED workouts
            ELSE /\ patch' = [user |-> u, workout |-> i, data |-> data, status |-> 200]
                 /\ workouts' = [workouts EXCEPT ![i] = PatchApply(@, Writable(Popped(data)))]
    /\ UNCHANGED <<plans, runs, reqs, resp, win, mgr, rt, call, inflight>>

(***************************************************************************)
(* WorkoutDetailView.update statement by statement, for PATCH requests of  *)
(* the owner that are served at the same time: get_object, then            *)
(* is_valid and perform_update, then the second get_object, the tracking   *)
(* call and the response.  instance is the row as get_object loaded it,    *)
(* original its completion_status, event the tracking call of the request. *)
(***************************************************************************)
Clients == {"c1", "c2"}

\* the bodies of the tracking fields
TrackingBodies ==
    {b \in [has : SUBSET {"completion_status", "difficulty"}, workout_info : {"edited"},
            date : {9}, plan : {2},
            completion_status : {"completed", "not_completed", "done?"},
            difficulty : {10, 11, 0}] :
        /\ "completion_status" \notin b.has => b.completion_status = "completed"
        /\ "difficulty" \notin b.has => b.difficulty = 10}

NoInstance == [plan |-> 0, date |-> 0, workout_info |-> NULL, completion_status |-> NULL,
               difficulty |-> NoDifficulty, additional_notes |-> NULL]

NoInflight == [pc |-> "idle", workout |-> 0, data |-> NoBody, instance |-> NoInstance,
                 original |-> NULL, status |-> 0, event |-> "none"]

NoRequests == [c \in Clients |-> NoInflight]

\* instance = self.get_object(); data = request.data.copy(); the pops;
\* original_completion_status = instance.completion_status
PatchGet(c, i, data) ==
    /\ inflight[c].pc \in {"idle", "done"}
    /\ inflight' = [inflight EXCEPT ![c] =
                       [pc |-> "got", workout |-> i, data |-> data, instance |-> workouts[i],
                        original |-> workouts[i].completion_status, status |-> 0,
                        event |-> "none"]]
    /\ UNCHANGED <<plans, workouts, runs, reqs, resp, win, mgr, rt, patch, call>>

\* an update that saves the row before the serializer has validated the body
PatchUpdateUnvalidated(c) ==
    LET q == inflight[c]
        data == Writable(Popped(q.data))
    IN  /\ q.pc = "got"
        /\ workouts' = [workouts EXCEPT ![q.workout] = PatchApply(q.instance, data)]
        /\ IF ~PatchValid(data)
           THEN inflight' = [inflight EXCEPT ![c] = [q EXCEPT !.pc = "done", !.status = 400]]
           ELSE inflight' = [inflight EXCEPT ![c] = [q EXCEPT !.pc = "updated"]]
        /\ UNCHANGED <<plans, runs, reqs, resp, win, mgr, rt, patch, call>>

\* serializer.is_valid(raise_exception=True); self.perform_update(serializer):
\* instance.save() writes every field of the instance that get_object loaded
PatchUpdate(c) ==
    LET q == inflight[c]
        data == Writable(Popped(q.data))
    IN  /\ q.pc = "got"
        /\ IF ~PatchValid(data)
           THEN /\ inflight' = [inflight EXCEPT ![c] = [q EXCEPT !.pc = "done", !.status = 400]]
                /\ UNCHANGED workouts
           ELSE /\ inflight' = [inflight EXCEPT ![c] = [q EXCEPT !.pc = "updated"]]
                /\ workouts' = [workouts EXCEPT ![q.workout] = PatchApply(q.instance, data)]
        /\ UNCHANGED <<plans, runs, reqs, resp, win, mgr, rt, patch, call>>

\* updated_instance = self.get_object(); the tracking call in its try block
\* when the status was not_completed and is now another; Response 200
PatchRespond(c) ==
    LET q == inflight[c]
        new_completion_status == workouts[q.workout].completion_status
    IN  /\ q.pc = "updated"
        /\ IF q.original = "not_completed" /\ new_completion_status # "not_completed"
           THEN \E ok \in BOOLEAN :
                  inflight' = [inflight EXCEPT ![c] =
                                 [q EXCEPT !.pc = "done", !.status = 200,
                                           !.event = IF ok THEN "tracked" ELSE "failed"]]
           ELSE inflight' = [inflight EXCEPT ![c] = [q EXCEPT !.pc = "done", !.status = 200]]
        /\ UNCHANGED <<plans, workouts, runs, reqs, resp, win, mgr, rt, patch, call>>

(***************************************************************************)
(* A direct call TrainingPlanService.generate_training_plan(plan) on a     *)
(* Plan loaded from the table (as in test_services.py), outside the pool.  *)
(***************************************************************************)
Reruns == {r \in RunIds : ~runs[r].pooled}

\* the caller calls synchronously: one direct call at a time
Rerun(p) ==
    /\ Terminal(plans[p])
    /\ Cardinality(Reruns) < MaxReruns
    /\ \A r \in Reruns : runs[r].pc = "done"
    /\ runs' = Append(runs, NewRun(p, plans[p], FALSE))
    /\ UNCHANGED <<plans, workouts, reqs, resp, win, mgr, rt, patch, call, inflight>>

(***************************************************************************)
(* The date window of generate_training_plan.  A date is its proleptic     *)
(* Gregorian ordinal (date.toordinal()), a creation time is a UTC day and  *)
(* hour, a timezone is the name stored in the profile ("" when unset).     *)
(***************************************************************************)
IsLeap(y) == (y % 4 = 0) /\ ((y % 100 # 0) \/ (y % 400 = 0))

DaysBeforeYear(y) == (y - 1) * 365 + ((y - 1) \div 4) - ((y - 1) \div 100) + ((y - 1) \div 400)

DaysBeforeMonth(y, m) ==
    <<0, 31, 59, 90, 120, 151, 181, 212, 243, 273, 304, 334>>[m]
        + (IF m > 2 /\ IsLeap(y) THEN 1 ELSE 0)

\* datetime.date(y, m, d).toordinal()
Ordinal(y, m, d) == DaysBeforeYear(y) + DaysBeforeMonth(y, m) + d

\* date.weekday(): Monday is 0, Sunday is 6
Weekday(date) == (date - 1) % 7

Timezones == {"", "UTC", "America/Los_Angeles", "Asia/Tokyo"}

\* profile.timezone or 'UTC'
TimezoneOrDefault(tz) == IF tz = "" THEN "UTC" ELSE tz

\* the UTC offset of the zone in hours (June 2025)
UtcOffset(tz) ==
    IF tz = "America/Los_Angeles" THEN 0 - 7
    ELSE IF tz = "Asia/Tokyo" THEN 9
    ELSE 0

\* plan.created_at.astimezone(user_tz).date()
LocalDate(day, hour, tz) == day + ((hour + UtcOffset(tz) + 24) \div 24) - 1

\* days_ahead = 7 - today.weekday(); next_sunday = today + days_ahead;
\* next_next_sunday = next_sunday + 7 days
UpToDate(today) == (today + (7 - Weekday(today))) + 7

CreationDays == {Ordinal(2025, 6, 2) + i : i \in 0..(MaxDays - 1)}

CreationHours == {0, 12, 23}

\* the days that pass between two readings of the wall clock
MaxDelay == 1

DaysInMonth(y, m) ==
    IF m = 12 THEN 31 ELSE DaysBeforeMonth(y, m + 1) - DaysBeforeMonth(y, m)

IsoYears == {2025}

\* date.isoformat(): the year, month and day of the text "YYYY-MM-DD"
IsoFormat(date) ==
    CHOOSE t \in IsoYears \X (1..12) \X (1..31) :
        /\ t[3] <= DaysInMonth(t[1], t[2])
        /\ Ordinal(t[1], t[2], t[3]) = date

\* ProfileSerializer(profile).data with serialized_profile['name']: the
\* stored timezone (not the default) and the first name
SerializedProfile(tz) == [timezone |-> tz, name |-> "Alice"]

\* the payload dictionary of generate_training_plan
Payload(plan, day, hour, tz) ==
    LET today == LocalDate(day, hour, TimezoneOrDefault(tz))
    IN  [today |-> IsoFormat(today),
         up_to_date |-> IsoFormat(UpToDate(today)),
         plan_url |-> [base |-> "FRONTEND_BASE_URL", path |-> "/plans/", id |-> plan],
         profile |-> SerializedProfile(tz)]

\* SHOT_1_INPUT
Shot1Input ==
    [today |-> <<2025, 3, 19>>, up_to_date |-> <<2025, 4, 6>>,
     plan_url |-> [base |-> "https://emmi.com", path |-> "/plans/", id |-> 1234],
     profile |-> [timezone |-> "", name |-> "Rosie"]]

\* TRAINING_PLAN_PROMPT: its segments in the order of the text; a name in
\* braces is a placeholder, "FORMAT" the output format, in which the
\* placeholder of the plan URL stands
TRAINING_PLAN_PROMPT ==
    <<"SYSTEM_PROMPT", "KNOWLEDGE_BASE_PROMPT", "GUIDELINES", "{today}", "{up_to_date}",
      "{profile}", "INSTRUCTIONS", "FORMAT", "{plan_url}", "FORMAT">>

Placeholders == {"{today}", "{up_to_date}", "{profile}", "{plan_url}"}

\* TRAINING_PLAN_PROMPT.format(**payload): the segments of the template and
\* the values that stand for the placeholders
Format(payload) == [template |-> TRAINING_PLAN_PROMPT, values |-> payload]

\* SHOT_1_OUTPUT, a text that is used as it is: no value is filled in
Shot1Output == [template |-> <<"SHOT_1_OUTPUT">>]

\* the message list of run_prompt_one_shot
Messages(payload) ==
    << [role |-> "user", content |-> Format(Shot1Input)],
       [role |-> "assistant", content |-> Shot1Output],
       [role |-> "user", content |-> Format(payload)] >>

\* what a run hands to model.invoke: the payload and the message list
Request(plan, day, hour, tz) ==
    [payload |-> Payload(plan, day, hour, tz), messages |-> Messages(Payload(plan, day, hour, tz))]

NoRequest == [payload |-> Shot1Input, messages |-> <<>>]

WindowPlans == {1, 2}

NoWindow == [pc |-> "none", day |-> 0, hour |-> 0, tz |-> "", today |-> 0, up_to_date |-> 0,
             plan |-> 0, clock |-> 0, first |-> NoRequest, second |-> NoRequest]

\* today and up_to_date of the payload, from the Plan's created_at, and the
\* request of the first run, which starts up to MaxDelay days after the
\* Plan was created
ComputeWindow ==
    /\ win.pc = "created"
    /\ \E d \in 0..MaxDelay :
         win' = [win EXCEPT !.pc = "computed",
                            !.clock = @ + d,
                            !.today = LocalDate(win.day, win.hour, TimezoneOrDefault(win.tz)),
                            !.up_to_date = UpToDate(LocalDate(win.day, win.hour,
                                                              TimezoneOrDefault(win.tz))),
                            !.first = Request(win.plan, win.day, win.hour, win.tz)]
    /\ UNCHANGED <<plans, workouts, runs, reqs, resp, mgr, rt, patch, call, inflight>>

\* a second run that takes the reference date from the wall clock
RecomposeFromClock ==
    /\ win.pc = "computed"
    /\ \E d \in 0..MaxDelay :
         win' = [win EXCEPT !.pc = "recomposed",
                            !.clock = @ + d,
                            !.second = Request(win.plan, win.clock + d, win.hour, win.tz)]
    /\ UNCHANGED <<plans, workouts, runs, reqs, resp, mgr, rt, patch, call, inflight>>

\* the request of a second run on the same Plan with the same profile, up to
\* MaxDelay days after the first
Recompose ==
    /\ win.pc = "computed"
    /\ \E d \in 0..MaxDelay :
         win' = [win EXCEPT !.pc = "recomposed",
                            !.clock = @ + d,
                            !.second = Request(win.plan, win.day, win.hour, win.tz)]
    /\ UNCHANGED <<plans, workouts, runs, reqs, resp, mgr, rt, patch, call, inflight>>

(***************************************************************************)
(* api/plans/services.py: TrainingPlanThreadManager.__new__, called by     *)
(* NumThreads request threads of one process.  instance is cls._instance   *)
(* (0 is None), executor is its _executor attribute (0 is unset), created  *)
(* and pools count the instances and the ThreadPoolExecutors constructed.  *)
(***************************************************************************)
Threads == 1..NumThreads

NewProcess ==
    [instance |-> 0, executor |-> 0, created |-> 0, pools |-> 0, lock |-> 0,
     tpc |-> [t \in Threads |-> "call"], got |-> [t \in Threads |-> 0]]

\* if cls._instance is None: (outside the lock)
FirstCheck(t) ==
    /\ mgr.tpc[t] = "call"
    /\ mgr' = [mgr EXCEPT !.tpc[t] = IF mgr.instance = 0 THEN "acquire" ELSE "return"]
    /\ UNCHANGED <<plans, workouts, runs, reqs, resp, win, rt, patch, call, inflight>>

\* with cls._lock:
Acquire(t) ==
    /\ mgr.tpc[t] = "acquire"
    /\ mgr.lock = 0
    /\ mgr' = [mgr EXCEPT !.lock = t, !.tpc[t] = "check"]
    /\ UNCHANGED <<plans, workouts, runs, reqs, resp, win, rt, patch, call, inflight>>

\* a second check that is not made: the thread always constructs
SecondCheckSkipped(t) ==
    /\ mgr.tpc[t] = "check"
    /\ mgr' = [mgr EXCEPT !.tpc[t] = "construct"]
    /\ UNCHANGED <<plans, workouts, runs, reqs, resp, win, rt, patch, call, inflight>>

\* if cls._instance is None: (inside the lock); the lock is released when
\* the with block is left
SecondCheck(t) ==
    /\ mgr.tpc[t] = "check"
    /\ mgr' = IF mgr.instance = 0
              THEN [mgr EXCEPT !.tpc[t] = "construct"]
              ELSE [mgr EXCEPT !.lock = 0, !.tpc[t] = "return"]
    /\ UNCHANGED <<plans, workouts, runs, reqs, resp, win, rt, patch, call, inflight>>

\* cls._instance = super().__new__(cls)
Construct(t) ==
    /\ mgr.tpc[t] = "construct"
    /\ mgr' = [mgr EXCEPT !.created = @ + 1, !.instance = mgr.created + 1,
                          !.executor = 0, !.tpc[t] = "executor"]
    /\ UNCHANGED <<plans, workouts, runs, reqs, resp, win, rt, patch, call, inflight>>

\* cls._instance._executor = ThreadPoolExecutor(max_workers=3); leave the lock
SetExecutor(t) ==
    /\ mgr.tpc[t] = "executor"
    /\ mgr' = [mgr EXCEPT !.pools = @ + 1, !.executor = mgr.pools + 1,
                          !.lock = 0, !.tpc[t] = "return"]
    /\ UNCHANGED <<plans, workouts, runs, reqs, resp, win, rt, patch, call, inflight>>

\* return cls._instance
Return(t) ==
    /\ mgr.tpc[t] = "return"
    /\ mgr' = [mgr EXCEPT !.got[t] = mgr.instance, !.tpc[t] = "done"]
    /\ UNCHANGED <<plans, workouts, runs, reqs, resp, win, rt, patch, call, inflight>>

(***************************************************************************)
(* Specifications                                                          *)
(***************************************************************************)
Init ==
    /\ plans = <<>>
    /\ workouts = <<>>
    /\ runs = <<>>
    /\ reqs = [u \in Users |-> 0]
    /\ resp = [user |-> "u1", status |-> 0, plan |-> 0, submit |-> "none"]
    /\ win = NoWindow
    /\ mgr = NewProcess
    /\ rt = NoRoundTrip
    /\ patch = NoPatch
    /\ call = NoCall
    /\ inflight = NoRequests

Step(r) ==
    \/ Dequeue(r)
    \/ Start(r)
    \/ Guard(r)
    \/ Invoke(r)
    \/ Parse(r)
    \/ Repair(r)
    \/ SavePlanInfo(r)
    \/ CreateWorkout(r)
    \/ MarkCompleted(r)
    \/ Notify(r)
    \/ Track(r)

\* the users whose generate requests are followed
Posters == {"u1", "u2", "u3", "u4"}

Next ==
    \/ \E u \in Posters : PostCheck(u)
    \/ \E u \in Posters : PostCreate(u)
    \/ \E r \in RunIds : Step(r)

Spec == Init /\ [][Next]_vars

\* The state after u1's first Plan failed on the primary model call and a
\* second generate request of u1 was accepted: Plan 1 in error, Plan 2 queued.
FailedPlan == set_error(NewPlan("u1"), "ModelError")

InitRerun ==
    /\ plans = <<FailedPlan, NewPlan("u1")>>
    /\ workouts = <<>>
    /\ runs = << [NewRun(1, NewPlan("u1"), TRUE) EXCEPT !.pc = "done", !.ret = "None",
                      !.obj = FailedPlan,
                      !.attempts = StopAfterAttempt, !.raised = "ModelError"],
                 NewRun(2, NewPlan("u1"), TRUE) >>
    /\ reqs = [u \in Users |-> 0]
    /\ resp = [user |-> "u1", status |-> 201, plan |-> 2, submit |-> "ok"]
    /\ win = NoWindow
    /\ mgr = NewProcess
    /\ rt = NoRoundTrip
    /\ patch = NoPatch
    /\ call = NoCall
    /\ inflight = NoRequests

NextRerun ==
    \/ \E r \in RunIds : Step(r)
    \/ \E p \in PlanIds : Rerun(p)

SpecRerun == InitRerun /\ [][NextRerun]_vars

\* The pool with five submitted Plans, one per user; the profiles of u3 and
\* u4 have changed since their requests were accepted.
PoolUsers == <<"u1", "u2", "u3", "u4", "u5">>

\* Plans accepted for u5 and, by two requests that both passed the check of
\* post() before either created its Plan, twice for u1.
RacePool == <<"u5", "u1", "u1">>

Pools == {PoolUsers, RacePool}

InitPool ==
    /\ \E pool \in Pools :
          /\ plans = [i \in 1..Len(pool) |-> NewPlan(pool[i])]
          /\ runs = [i \in 1..Len(pool) |-> NewRun(i, NewPlan(pool[i]), TRUE)]
          /\ resp = [user |-> pool[Len(pool)], status |-> 201, plan |-> Len(pool),
                     submit |-> "ok"]
    /\ workouts = <<>>
    /\ reqs = [u \in Users |-> 0]
    /\ win = NoWindow
    /\ mgr = NewProcess
    /\ rt = NoRoundTrip
    /\ patch = NoPatch
    /\ call = NoCall
    /\ inflight = NoRequests

NextPool == \E r \in RunIds : Step(r)

SpecPool == InitPool /\ [][NextPool]_vars

\* The window computed for a Plan created on any of the days, at any of the
\* hours, for a user in any of the zones.
InitWindow ==
    /\ plans = <<>>
    /\ workouts = <<>>
    /\ runs = <<>>
    /\ reqs = [u \in Users |-> 0]
    /\ resp = [user |-> "u1", status |-> 0, plan |-> 0, submit |-> "none"]
    /\ \E day \in CreationDays :
         win \in [pc : {"created"}, day : {day}, hour : CreationHours,
                  tz : Timezones, today : {0}, up_to_date : {0},
                  plan : WindowPlans, clock : {day},
                  first : {NoRequest}, second : {NoRequest}]
    /\ mgr = NewProcess
    /\ rt = NoRoundTrip
    /\ patch = NoPatch
    /\ call = NoCall
    /\ inflight = NoRequests

NextWindow ==
    \/ ComputeWindow
    \/ Recompose

SpecWindow == InitWindow /\ [][NextWindow]_vars

\* The parser given any document of the model in a fenced block, between any
\* two free texts.
InitRoundTrip ==
    /\ plans = <<>>
    /\ workouts = <<>>
    /\ runs = <<>>
    /\ reqs = [u \in Users |-> 0]
    /\ resp = [user |-> "u1", status |-> 0, plan |-> 0, submit |-> "none"]
    /\ win = NoWindow
    /\ mgr = NewProcess
    /\ rt \in [pc : {"composed"}, doc : DocTokens, before : FreeTexts, after : FreeTexts,
                out : {NULL}]
    /\ patch = NoPatch
    /\ call = NoCall
    /\ inflight = NoRequests

NextRoundTrip == RoundTrip

SpecRoundTrip == InitRoundTrip /\ [][NextRoundTrip]_vars

\* PATCH requests on the Workouts of u1's completed Plan 1; Plan 2 belongs
\* to u5.
InitPatch ==
    /\ plans = << [mark_as_completed(NewPlan("u1"), 1) EXCEPT
                      !.plan_info = <<PlanInfo(DocOf("d1"))>>],
                  NewPlan("u5") >>
    /\ workouts = [i \in 1..Len(WorkoutEntries(DocOf("d1"))) |->
                      NewWorkout(1, WorkoutEntries(DocOf("d1"))[i])]
    /\ runs = <<>>
    /\ reqs = [u \in Users |-> 0]
    /\ resp = [user |-> "u5", status |-> 201, plan |-> 2, submit |-> "logged"]
    /\ win = NoWindow
    /\ mgr = NewProcess
    /\ rt = NoRoundTrip
    /\ patch = NoPatch
    /\ call = NoCall
    /\ inflight = NoRequests

NextPatch == \E u \in Patchers, i \in 1..Len(workouts), data \in PatchBodies : Patch(u, i, data)

SpecPatch == InitPatch /\ [][NextPatch]_vars

\* The requests of u1 and the runs they schedule, where every run that can
\* take a step eventually takes one: a pool worker runs its task to the end
\* and, by the claim's assumption, every external call returns or fails.
LivePosters == {"u1"}

NextLive ==
    \/ \E u \in LivePosters : PostCheck(u)
    \/ \E u \in LivePosters : PostCreate(u)
    \/ \E r \in RunIds : Step(r)

SpecLive ==
    /\ Init
    /\ [][NextLive]_vars
    /\ \A r \in 1..MaxPlans : WF_vars(r \in RunIds /\ Step(r))

\* PATCH requests of two clients of u1 on one Workout of u1's completed
\* Plan 1, served at the same time.
TrackedWorkouts == {1}

InitTracking ==
    /\ plans = << [mark_as_completed(NewPlan("u1"), 1) EXCEPT
                      !.plan_info = <<PlanInfo(DocOf("d1"))>>] >>
    /\ workouts = [i \in 1..Len(WorkoutEntries(DocOf("d1"))) |->
                      NewWorkout(1, WorkoutEntries(DocOf("d1"))[i])]
    /\ runs = <<>>
    /\ reqs = [u \in Users |-> 0]
    /\ resp = [user |-> "u1", status |-> 201, plan |-> 1, submit |-> "ok"]
    /\ win = NoWindow
    /\ mgr = NewProcess
    /\ rt = NoRoundTrip
    /\ patch = NoPatch
    /\ call = NoCall
    /\ inflight = NoRequests

NextTracking ==
    \/ \E c \in Clients, i \in TrackedWorkouts, data \in TrackingBodies : PatchGet(c, i, data)
    \/ \E c \in Clients : PatchUpdate(c)
    \/ \E c \in Clients : PatchRespond(c)

SpecTracking == InitTracking /\ [][NextTracking]_vars

\* Direct calls of the parser on every text of up to MaxTokens tokens with
\* every max_attempts of 0..MaxAttemptsArg and a tracing config.
InitParser ==
    /\ plans = <<>>
    /\ workouts = <<>>
    /\ runs = <<>>
    /\ reqs = [u \in Users |-> 0]
    /\ resp = [user |-> "u1", status |-> 0, plan |-> 0, submit |-> "none"]
    /\ win = NoWindow
    /\ mgr = NewProcess
    /\ rt = NoRoundTrip
    /\ patch = NoPatch
    /\ inflight = NoRequests
    /\ \E text \in Texts, m \in 0..MaxAttemptsArg :
          call = [NoCall EXCEPT !.pc = "called", !.text = text, !.content = text,
                                !.max_attempts = m, !.given = m, !.config = TRUE]

NextParser ==
    \/ ParserCall
    \/ ParserRepair

SpecParser == InitParser /\ [][NextParser]_vars

\* Concurrent first constructions of TrainingPlanThreadManager.
InitManager ==
    /\ plans = <<>>
    /\ workouts = <<>>
    /\ runs = <<>>
    /\ reqs = [u \in Users |-> 0]
    /\ resp = [user |-> "u1", status |-> 0, plan |-> 0, submit |-> "none"]
    /\ win = NoWindow
    /\ mgr = NewProcess
    /\ rt = NoRoundTrip
    /\ patch = NoPatch
    /\ call = NoCall
    /\ inflight = NoRequests

NextManager ==
    \E t \in Threads :
        \/ FirstCheck(t)
        \/ Acquire(t)
        \/ SecondCheck(t)
        \/ Construct(t)
        \/ SetExecutor(t)
        \/ Return(t)

SpecManager == InitManager /\ [][NextManager]_vars

(***************************************************************************)
(* Properties                                                              *)
(***************************************************************************)
RowOf(r) == plans[runs[r].plan]

Last(h) == h[Len(h)]

AllSyntax(h) == \A i \in 1..Len(h) : h[i] = "syntax"

OtherInProgress(r) ==
    \E q \in PlanIds : /\ q # runs[r].plan
                       /\ plans[q].user = RowOf(r).user
                       /\ InProgress(plans[q])

ParserErrors == {"No YAML block found", "No valid YAML block found",
                 "YAML block is empty", "Error parsing YAML"}

Persistable(tok) ==
    /\ IsMapping(tok)
    /\ \A i \in 1..Len(WorkoutEntries(DocOf(tok))) : WorkoutValid(WorkoutEntries(DocOf(tok))[i])

\* C1: no user owns two Plans that are both in progress (no completion
\* timestamp and no error), whatever the interleaving of generate requests
\* and worker runs.
C1_AtMostOneInFlight ==
    \A p, q \in PlanIds :
        (p # q /\ plans[p].user = plans[q].user) => ~(InProgress(plans[p]) /\ InProgress(plans[q]))

\* C2: a run that failed after it saved plan_info leaves no Workout row of
\* its Plan (persistence is all-or-nothing).
C2_AtomicPersistence ==
    \A r \in RunIds :
        (runs[r].pc = "done" /\ runs[r].raised # NULL /\ runs[r].obj.plan_info # <<>>)
            => WorkoutsOf(runs[r].plan) = <<>>

\* C3: no scheduled run ends with its Plan still in progress: when a run of
\* the pool has returned, its Plan is completed or in error.
C3_RunEndsTerminal ==
    \A r \in RunIds : (runs[r].pooled /\ runs[r].pc = "done") => Terminal(RowOf(r))

\* C4 as stated: once a Plan is completed or in error, no step changes its
\* generation_completed_at, generation_error or plan_info.
C4_ImmutableOnceTerminal ==
    [][\A p \in PlanIds : Terminal(plans[p]) => plans'[p] = plans[p]]_vars

\* C4 as amended: once a Plan is completed or in error, only a step of a run
\* of generate_training_plan on that same Plan changes its
\* generation_completed_at, generation_error or plan_info.
C4_ChangedOnlyByOwnRun ==
    [][\A p \in PlanIds :
         (Terminal(plans[p]) /\ plans'[p] # plans[p])
            => \E r \in RunIds : runs[r].plan = p /\ runs'[r] # runs[r]]_vars

\* a direct call on Plan 1, which was in error, has completed it
C4_Witness ==
    \E r \in Reruns : runs[r].plan = 1 /\ runs[r].pc = "done" /\ plans[1].completed_at = r

\* C5: a run that starts while another Plan of the same user is in progress
\* aborts as a no-op: no model call, None returned, no Plan and no Workout
\* changed.
C5_EntryGuardNoOp ==
    [][\A r \in RunIds :
         (runs[r].pc \in {"start", "guard"} /\ OtherInProgress(r) /\ runs'[r] # runs[r])
            => /\ runs'[r].pc \in {"guard", "done"}
               /\ runs'[r].pc = "done" => runs'[r].ret = "None"
               /\ runs'[r].attempts = 0 /\ runs'[r].repairs = 0
               /\ plans' = plans
               /\ workouts' = workouts]_vars

\* C6: the parser makes at most 3 repair calls, calls the repair model only
\* while fewer than 3 calls were made, and when every strict parse found a
\* syntax error (every repair call having returned) it has raised the parse
\* failure after exactly 3 repair calls.
C6_RepairBounded ==
    \A r \in RunIds :
        /\ runs[r].repairs <= DefaultMaxAttempts
        /\ runs[r].pc = "repair" => runs[r].repairs < DefaultMaxAttempts
        /\ (/\ runs[r].hist # <<>>
            /\ AllSyntax(runs[r].hist)
            /\ runs[r].pc \notin {"parse", "repair"}
            /\ runs[r].raised # "RepairModelError")
               => /\ runs[r].pc = "done"
                  /\ runs[r].raised = "Error parsing YAML"
                  /\ runs[r].repairs = DefaultMaxAttempts

C6_Witness ==
    \E r \in RunIds : /\ runs[r].raised = "Error parsing YAML"
                      /\ AllSyntax(runs[r].hist)
                      /\ runs[r].repairs = DefaultMaxAttempts

\* C7: a run never fails in the parser (missing block, empty document or
\* syntax error) without at least one repair call having been made.
C7_EveryErrorRepaired ==
    \A r \in RunIds : runs[r].raised \in ParserErrors => runs[r].repairs >= 1

Repaired(r) ==
    /\ Len(runs[r].hist) >= 2
    /\ runs[r].hist[1] = "syntax"
    /\ Last(runs[r].hist) = "doc"

C10_FailureBecomesError ==
    \A r \in RunIds :
        runs[r].raised # NULL
            => /\ runs[r].pc = "done"
               /\ runs[r].ret = "None"
               /\ RowOf(r).error = runs[r].raised
               /\ RowOf(r).completed_at = NoTime

\* one run failed in validation and another in persistence
C10_Witness ==
    \E r, q \in RunIds : /\ runs[r].raised = "ValidationError"
                         /\ runs[q].raised = "WorkoutValidationError"
                         /\ runs[q].cursor >= 1

\* C11: the primary model call is attempted at most three times in a run: it
\* is attempted again only after a failed attempt and never after a reply,
\* and a run whose three attempts all failed has ended with its Plan in error.
C11_PrimaryCallBounded ==
    \A r \in RunIds :
        /\ runs[r].attempts <= StopAfterAttempt
        /\ runs[r].replies <= 1
        /\ runs[r].pc = "invoke" => (runs[r].attempts < StopAfterAttempt /\ runs[r].replies = 0)
        /\ runs[r].attempts = StopAfterAttempt
              => /\ runs[r].pc = "done"
                 /\ runs[r].replies = 0
                 /\ runs[r].raised = "ModelError"
                 /\ status(RowOf(r)) = "error"
        /\ runs[r].raised = "ModelError" => runs[r].attempts = StopAfterAttempt

\* a run gave up after three failed attempts, another got its reply on the
\* third attempt
C11_Witness ==
    \E r, q \in RunIds : /\ runs[r].raised = "ModelError"
                         /\ runs[r].attempts = StopAfterAttempt
                         /\ status(RowOf(r)) = "error"
                         /\ runs[q].pc = "invoke"
                         /\ runs[q].attempts = StopAfterAttempt - 1

\* C12: a run whose notification send or analytics emit failed leaves its
\* Plan completed with generation_error null and with one Workout row per
\* workout entry of the parsed document.
C12_SideEffectFailureIsolated ==
    \A r \in RunIds :
        (runs[r].sms = "failed" \/ runs[r].tracked = "failed")
            => /\ status(RowOf(r)) = "completed"
               /\ RowOf(r).error = NULL
               /\ RowOf(r).completed_at # NoTime
               /\ runs[r].raised = NULL
               /\ Len(WorkoutsOf(runs[r].plan)) = Len(WorkoutEntries(DocOf(runs[r].plan_data)))

\* a run has returned the plan after both the send and the emit failed
C12_Witness ==
    \E r \in RunIds : /\ runs[r].pc = "done"
                      /\ runs[r].ret = "plan"
                      /\ runs[r].sms = "failed"
                      /\ runs[r].tracked = "failed"
                      /\ WorkoutsOf(runs[r].plan) # <<>>


\* C13: for every creation day, hour and timezone, the window end date
\* up_to_date that the run computes is a Sunday (weekday 6).
C13_WindowEndsSunday ==
    win.pc = "computed" => Weekday(win.up_to_date) = 6

\* C14: for a Plan created on Monday 2025-06-02 by a user in timezone UTC the
\* window end is 2025-06-15, thirteen days after today.
C14_MondayWindow ==
    (win.pc = "computed" /\ win.day = Ordinal(2025, 6, 2) /\ TimezoneOrDefault(win.tz) = "UTC")
        => /\ win.today = Ordinal(2025, 6, 2)
           /\ win.up_to_date = Ordinal(2025, 6, 15)
           /\ win.up_to_date = win.today + 13


ValidUser(u) == HasFirstName(u) /\ HasProfile(u) /\ OnboardingComplete(u)

\* C15: a run for a user without a first name, without a profile or with an
\* incomplete onboarding never calls the primary model, the repair model,
\* the notification service or the analytics service, and once it has passed
\* its validation it has ended with the Plan in error.
C15_PreconditionFailsFast ==
    \A r \in RunIds :
        ~ValidUser(RowOf(r).user)
            => /\ runs[r].attempts = 0
               /\ runs[r].replies = 0
               /\ runs[r].repairs = 0
               /\ runs[r].sms = "none"
               /\ runs[r].tracked = "none"
               /\ runs[r].pc \in {"queued", "start", "done"}
               /\ ~runs[r].txn
               /\ runs[r].pc = "done"
                    => /\ runs[r].ret = "None"
                       /\ status(RowOf(r)) = "error"
                       /\ WorkoutsOf(runs[r].plan) = <<>>

\* the runs of the three users who fail validation have ended, for each of
\* the three reasons, while the run of the valid user has called the model
C15_Witness ==
    /\ \A r \in RunIds : ~ValidUser(RowOf(r).user)
                            => runs[r].pc = "done" /\ status(RowOf(r)) = "error"
    /\ \E r \in RunIds : plans[runs[r].plan].user = "u2" /\ runs[r].pc = "done"
    /\ \E r \in RunIds : plans[runs[r].plan].user = "u3" /\ runs[r].pc = "done"
    /\ \E r \in RunIds : plans[runs[r].plan].user = "u4" /\ runs[r].pc = "done"
    /\ \E r \in RunIds : ValidUser(RowOf(r).user) /\ runs[r].replies = 1


\* C16: a run entered on a Plan in error is not turned away for that, and
\* when such a run marks the Plan completed or returns the plan, the Plan is
\* completed with generation_completed_at set and generation_error null.
C16_RetryFromErrorCompletes ==
    [][\A r \in RunIds :
          (/\ runs[r].entry = "error"
           /\ runs[r].pc # runs'[r].pc
           /\ \/ runs'[r].pc = "notify"
              \/ runs'[r].pc = "done" /\ runs'[r].ret = "plan")
              => /\ status(plans'[runs[r].plan]) = "completed"
                 /\ plans'[runs[r].plan].completed_at # NoTime
                 /\ plans'[runs[r].plan].error = NULL]_vars

\* a run entered on a Plan in error has returned the plan, and the Plan is
\* completed with the error cleared
C16_Witness ==
    \E r \in RunIds : /\ runs[r].entry = "error"
                      /\ runs[r].pc = "done"
                      /\ runs[r].ret = "plan"
                      /\ status(RowOf(r)) = "completed"
                      /\ RowOf(r).completed_at # NoTime
                      /\ RowOf(r).error = NULL

\* C17: whatever set_error and mark_as_completed calls a Plan has seen,
\* generation_completed_at and generation_error are never both non-null, in
\* the row and in every in-memory object, so the Plan is in exactly one of
\* in progress, completed and error.
C17_ExactlyOneState ==
    /\ \A p \in PlanIds : ~(plans[p].completed_at # NoTime /\ plans[p].error # NULL)
    /\ \A r \in RunIds : ~(runs[r].obj.completed_at # NoTime /\ runs[r].obj.error # NULL)
    /\ \A p \in PlanIds :
          /\ status(plans[p]) = "in progress" <=> (plans[p].completed_at = NoTime /\ plans[p].error = NULL)
          /\ status(plans[p]) = "completed" <=> (plans[p].completed_at # NoTime /\ plans[p].error = NULL)
          /\ status(plans[p]) = "error" <=> (plans[p].completed_at = NoTime /\ plans[p].error # NULL)

\* mark_as_completed and then set_error were called on one Plan: a run
\* completed it and a later run on it failed
C17_Witness ==
    \E r, q \in RunIds : /\ r # q
                         /\ runs[r].plan = runs[q].plan
                         /\ runs[r].ret = "plan"
                         /\ runs[q].entry = "completed"
                         /\ runs[q].raised # NULL
                         /\ status(RowOf(q)) = "error"
                         /\ RowOf(q).completed_at = NoTime


\* the positions <<week, day, workout>> of the workout entries of a document
EntryPositions(doc) ==
    UNION {UNION {{<<w, d, k>> : k \in 1..Len(doc.weeks[w].dates[d].workouts)} :
                     d \in 1..Len(doc.weeks[w].dates)} :
              w \in 1..Len(doc.weeks)}

Before(a, b) ==
    \/ a[1] < b[1]
    \/ a[1] = b[1] /\ a[2] < b[2]
    \/ a[1] = b[1] /\ a[2] = b[2] /\ a[3] < b[3]

\* the place of a position in the walk over weeks, then dates, then workouts
Rank(doc, pos) == Cardinality({a \in EntryPositions(doc) : Before(a, pos)}) + 1

C19_AtMostThreeWorkers ==
    /\ Cardinality({r \in RunIds : Active(r)}) <= MaxWorkers
    /\ \A r \in RunIds :
          (runs[r].pooled /\ runs[r].pc # "queued")
              => \A q \in 1..(r - 1) : runs[q].pc # "queued"

\* more plans were submitted than there are workers: three runs are executing
\* and another waits
C19_Witness ==
    /\ Len(runs) > MaxWorkers
    /\ Cardinality({r \in RunIds : Active(r)}) = MaxWorkers
    /\ \E r \in RunIds : runs[r].pc = "queued"


\* C20: under every interleaving of concurrent constructions, at most one
\* TrainingPlanThreadManager instance and one worker pool are ever created,
\* every caller that has returned got that one instance, and once all
\* callers have returned exactly one pool exists.
C20_Singleton ==
    /\ mgr.created <= 1
    /\ mgr.pools <= 1
    /\ \A t \in Threads : mgr.tpc[t] = "done" => (mgr.got[t] = 1 /\ mgr.instance = 1)
    /\ \A t, u \in Threads :
          (mgr.tpc[t] = "done" /\ mgr.tpc[u] = "done") => mgr.got[t] = mgr.got[u]
    /\ (\A t \in Threads : mgr.tpc[t] = "done") => (mgr.pools = 1 /\ mgr.executor = 1)

\* a caller has returned the instance while another, which had passed the
\* first check before the instance existed, holds the lock at the second
\* check
C20_Witness ==
    \E t, u \in Threads : /\ t # u
                          /\ mgr.tpc[t] = "done"
                          /\ mgr.got[t] = 1
                          /\ mgr.tpc[u] = "check"
                          /\ mgr.lock = u
                          /\ mgr.instance = 1
                          /\ mgr.pools = 1

\* C21: generate_training_plan_async never raises to post(): whether submit
\* queues the run or fails, the request that created the Plan is answered
\* 201; a failed submission is logged and schedules nothing, an accepted one
\* leaves the new run queued (the caller does not wait for it), and no
\* other run is touched.
C21_AsyncNeverRaises ==
    [][Len(plans') > Len(plans)
          => /\ resp'.status = 201
             /\ resp'.plan = Len(plans')
             /\ resp'.submit \in {"ok", "logged"}
             /\ \A r \in RunIds : runs'[r] = runs[r]
             /\ resp'.submit = "logged" => runs' = runs
             /\ resp'.submit = "ok"
                  => /\ Len(runs') = Len(runs) + 1
                     /\ runs'[Len(runs')].plan = Len(plans')
                     /\ runs'[Len(runs')].pc = "queued"]_vars

\* a request was answered 201 although the pool refused its submission: its
\* Plan exists, in progress, and no run was scheduled for it
C21_Witness ==
    /\ resp.status = 201
    /\ resp.submit = "logged"
    /\ resp.plan \in PlanIds
    /\ InProgress(plans[resp.plan])
    /\ \A r \in RunIds : runs[r].plan # resp.plan

\* C22: no run calls the primary model, the repair model, the notification
\* service or the analytics service while the transaction it opened for the
\* entry guard is open: the transaction is open only at the guard query.
C22_NoCallInTransaction ==
    \A r \in RunIds :
        /\ runs[r].pc \in {"invoke", "parse", "repair", "notify", "track"} => ~runs[r].txn
        /\ runs[r].txn => (runs[r].pc = "guard" /\ runs[r].attempts = 0 /\ runs[r].replies = 0)

\* one run holds its guard transaction open while another, which went
\* through the guard before, is between attempts of the primary model call
C22_Witness ==
    \E r, q \in RunIds : /\ runs[r].txn
                         /\ runs[q].pc = "invoke"
                         /\ runs[q].attempts > 0
                         /\ ~runs[q].txn


HasPlanInProgress(u) == \E q \in PlanIds : plans[q].user = u /\ InProgress(plans[q])

\* C23: when post() handles a request of a user who has a Plan in progress,
\* the answer is 400, the request goes no further (no Plan is created, no
\* run is scheduled) and every Plan, run and Workout is unchanged.
C23_InProgressRejected ==
    [][\A u \in Users :
          (HasPlanInProgress(u) /\ PostCheck(u))
              => /\ resp' = [user |-> u, status |-> 400, plan |-> 0, submit |-> "none"]
                 /\ reqs' = reqs
                 /\ plans' = plans
                 /\ runs' = runs
                 /\ workouts' = workouts]_vars

\* u1, whose profile is complete, was answered 400 while Plan 1, which is
\* theirs, is in progress and is the only Plan
C23_Witness ==
    /\ resp = [user |-> "u1", status |-> 400, plan |-> 0, submit |-> "none"]
    /\ Len(plans) = 1
    /\ plans[1].user = "u1"
    /\ InProgress(plans[1])
    /\ reqs["u1"] = 0

\* C24: a user without a profile or with an incomplete onboarding is only
\* ever answered 400: no request of theirs passes the checks, and no Plan
\* of theirs exists.
C24_IncompleteProfileRejected ==
    /\ \A u \in Users :
          (~HasProfile(u) \/ ~OnboardingComplete(u))
              => /\ reqs[u] = 0
                 /\ \A p \in PlanIds : plans[p].user # u
                 /\ resp.user = u => (resp.status = 400 /\ resp.plan = 0)
    /\ \A r \in RunIds : /\ HasProfile(plans[runs[r].plan].user)
                         /\ OnboardingComplete(plans[runs[r].plan].user)

\* u4, who has no profile, was answered 400 after another user's request
\* had created a Plan
C24_Witness ==
    /\ resp = [user |-> "u4", status |-> 400, plan |-> 0, submit |-> "none"]
    /\ Len(plans) = 1

\* C25: a request answered 201 has created exactly one Plan, in progress and
\* owned by the requester, and has scheduled exactly one run, for that Plan.
C25_AcceptedCreatesAndSchedules ==
    [][Len(plans') > Len(plans)
          => /\ resp'.status = 201
             /\ plans' = Append(plans, NewPlan(resp'.user))
             /\ resp'.plan = Len(plans')
             /\ Len(runs') = Len(runs) + 1
             /\ \A r \in RunIds : runs'[r] = runs[r]
             /\ runs'[Len(runs')].plan = Len(plans')
             /\ runs'[Len(runs')].pc = "queued"]_vars


Holds(text, toks) == \E i \in 1..Len(text) : text[i] \in toks

\* C29 as stated: whatever free text surrounds the fenced block of a valid
\* non-empty document D, the parser returns D and makes no repair call.
C29_RoundTripAnyText ==
    rt.pc = "parsed" => (rt.out.res = "return" /\ rt.out.doc = rt.doc)

\* C29: the parser returns D, without a repair call, for the fenced block of
\* a valid non-empty document D with or without surrounding free text, when
\* the text before the block holds no "```yaml" and the text after it holds
\* no triple backtick.
C29_RoundTrip ==
    (rt.pc = "parsed" /\ ~Holds(rt.before, {"yfence"}) /\ ~Holds(rt.after, {"fence", "yfence"}))
        => /\ rt.out.res = "return"
           /\ rt.out.doc = rt.doc
           /\ rt.out.err = NULL

\* the document came back from a block that follows prose with a closed
\* code fence and is followed by prose
C29_Witness ==
    /\ rt.pc = "parsed"
    /\ rt.before = <<"txt", "fence">>
    /\ rt.after = <<"ws", "txt">>
    /\ rt.out.res = "return"
    /\ rt.out.doc = rt.doc


\* C26: whatever PATCH requests were made, every Workout keeps the
\* workout_info, the date and the plan it was created with; a PATCH of the
\* owner whose tracking values are valid is answered 200 and has set the
\* tracking fields it carries, also when it carries workout_info, date or
\* plan.
C26_PatchKeepsPipelineFields ==
    /\ Len(workouts) = Len(WorkoutEntries(DocOf("d1")))
    /\ \A i \in 1..Len(workouts) :
          /\ workouts[i].plan = 1
          /\ workouts[i].date = WorkoutEntries(DocOf("d1"))[i].date
          /\ workouts[i].workout_info = WorkoutEntries(DocOf("d1"))[i].workout_info
    /\ (patch.status # 0 /\ patch.user = plans[1].user /\ PatchValid(patch.data))
          => /\ patch.status = 200
             /\ "completion_status" \in patch.data.has
                   => workouts[patch.workout].completion_status = patch.data.completion_status
             /\ "difficulty" \in patch.data.has
                   => workouts[patch.workout].difficulty = patch.data.difficulty

\* a PATCH carrying workout_info, date, plan and a completion status was
\* answered 200 and set the status of a Workout that an earlier PATCH had
\* given a difficulty
C26_Witness ==
    /\ patch.status = 200
    /\ patch.data.has = {"workout_info", "date", "plan", "completion_status"}
    /\ workouts[patch.workout].completion_status = "completed"
    /\ workouts[patch.workout].difficulty = 10
    /\ workouts[patch.workout].workout_info # patch.data.workout_info
    /\ workouts[patch.workout].date # patch.data.date


\* C27: MixpanelService.track is called for "Training Plan Generated" once by
\* every run that returns the plan, also when the notification send has
\* failed; a run that has called it never calls it again, and a run that
\* ends in error or is aborted by the entry guard has not called it.
C27_TrackedOncePerSuccess ==
    [][\A r \in RunIds :
          /\ runs[r].tracked # "none" => runs'[r].tracked = runs[r].tracked
          /\ runs'[r].ret = "plan" => runs'[r].tracked # "none"
          /\ (runs'[r].raised # NULL \/ runs'[r].aborted \/ runs'[r].ret = "None")
                => runs'[r].tracked = "none"
          /\ (runs[r].tracked = "none" /\ runs'[r].tracked # "none")
                => /\ runs[r].pc = "track"
                   /\ runs'[r].ret = "plan"
                   /\ status(plans'[runs[r].plan]) = "completed"]_vars

\* a run has returned the plan with the event tracked after its send failed,
\* and another run of the same user was aborted by the entry guard
C27_Witness ==
    \E r, q \in RunIds : /\ runs[r].pc = "done"
                         /\ runs[r].ret = "plan"
                         /\ runs[r].sms = "failed"
                         /\ runs[r].tracked = "yes"
                         /\ runs[q].aborted
                         /\ runs[q].tracked = "none"


\* C28: a run sends the notification message only for a user with a phone
\* number on file and only in a step that starts with its Plan completed;
\* for a user without a phone number that step sends nothing and records the
\* False that send_plan_notification returns; nothing is sent twice, and
\* nothing has been sent for a Plan in error or by a run that the entry guard
\* aborted.
C28_SentOnlyWithPhoneAfterCompleted ==
    [][\A r \in RunIds :
          /\ (runs[r].sms = "none" /\ runs'[r].sms # "none")
                => /\ runs[r].pc = "notify"
                   /\ status(plans[runs[r].plan]) = "completed"
                   /\ HasPhone(plans[runs[r].plan].user) <=> runs'[r].sms \in {"sent", "failed"}
                   /\ ~HasPhone(plans[runs[r].plan].user) <=> runs'[r].sms = "skipped"
          /\ runs[r].sms # "none" => runs'[r].sms = runs[r].sms
          /\ (status(plans'[runs[r].plan]) = "error" \/ runs'[r].raised # NULL \/ runs'[r].aborted)
                => runs'[r].sms = "none"]_vars

\* the run for u5, who has no phone number, returned the plan with nothing
\* sent, and a run for u1 was aborted by the entry guard
C28_Witness ==
    \E r, q \in RunIds : /\ ~HasPhone(plans[runs[r].plan].user)
                         /\ runs[r].pc = "done"
                         /\ runs[r].ret = "plan"
                         /\ runs[r].sms = "skipped"
                         /\ runs[q].aborted
                         /\ runs[q].sms = "none"

StageOf(pc) ==
    CASE pc = "queued" -> 0
      [] pc = "start" -> 1
      [] pc = "guard" -> 2
      [] pc = "invoke" -> 3
      [] pc \in {"parse", "repair"} -> 4
      [] pc = "persist" -> 5
      [] pc = "workouts" -> 6
      [] pc = "notify" -> 7
      [] pc = "track" -> 8
      [] OTHER -> 9

\* C31: a run never goes back to an earlier step and leaves out no step on
\* the way to returning the plan; a Workout row of its Plan is created only
\* when the parser has returned a document and the summary has been saved;
\* the Plan is marked completed only by the step after the last row, when
\* the Plan has one row for every workout entry of the document.
C31_StepsInOrder ==
    [][\A r \in RunIds :
          /\ StageOf(runs'[r].pc) >= StageOf(runs[r].pc)
          /\ (runs'[r].pc # "done" /\ runs[r].pc # "queued")
                => StageOf(runs'[r].pc) <= StageOf(runs[r].pc) + 1
          /\ runs'[r].ret = "plan" => runs[r].pc \in {"track", "done"}
          /\ Len(WorkoutsOf(runs[r].plan)) # Len(SelectSeq(workouts', LAMBDA w : w.plan = runs[r].plan))
                => /\ runs[r].pc = "workouts"
                   /\ IsMapping(runs[r].plan_data)
                   /\ runs[r].obj.plan_info = <<PlanInfo(DocOf(runs[r].plan_data))>>
                   /\ status(plans[runs[r].plan]) = "in progress"
          /\ (status(plans[runs[r].plan]) # "completed" /\ status(plans'[runs[r].plan]) = "completed")
                => /\ runs[r].pc = "workouts"
                   /\ runs'[r].pc = "notify"
                   /\ runs[r].cursor = Len(WorkoutEntries(DocOf(runs[r].plan_data)))
                   /\ Len(WorkoutsOf(runs[r].plan)) = Len(WorkoutEntries(DocOf(runs[r].plan_data)))
                   /\ workouts' = workouts]_vars

\* a run has gone through every step: its Plan is completed with three rows
\* and the notification and the event have been handled
C31_Witness ==
    \E r \in RunIds : /\ runs[r].pc = "done"
                      /\ runs[r].ret = "plan"
                      /\ runs[r].replies = 1
                      /\ runs[r].repairs >= 1
                      /\ Len(WorkoutsOf(runs[r].plan)) = 3
                      /\ status(RowOf(r)) = "completed"
                      /\ runs[r].sms # "none"
                      /\ runs[r].tracked # "none"

\* C32: once the primary model has returned a reply in a run, that run makes
\* no further attempt on the primary model, whether the reply parses, is
\* repaired or makes the run fail.
C32_NoPrimaryCallAfterReply ==
    [][\A r \in RunIds :
          runs[r].replies >= 1
             => /\ runs'[r].replies = runs[r].replies
                /\ runs'[r].attempts = runs[r].attempts
                /\ runs'[r].pc # "invoke"]_vars

\* after one reply of the primary model a run has ended in a parser error,
\* with three repair calls made
C32_Witness ==
    \E r \in RunIds : /\ runs[r].replies = 1
                      /\ runs[r].repairs = DefaultMaxAttempts
                      /\ runs[r].raised \in ParserErrors
                      /\ runs[r].pc = "done"


\* the tokens of text strictly between positions i and j
Between(text, i, j) == [k \in 1..(IF j > i THEN j - i - 1 ELSE 0) |-> text[i + k]]

\* C33: for every text, the block that preprocess_yaml extracts is the text
\* between the first opening fence and the last triple backtick of the text
\* (an opening fence is one too); without an opening fence it raises "No
\* YAML block found"; when no triple backtick follows the first opening
\* fence the parser raises and returns no document.
C33_BlockBetweenFirstAndLastFence ==
    (call.pc \in {"returned", "raised", "repair"} /\ call.repairs = 0)
        => LET t == call.text
               opens == {i \in 1..Len(t) : t[i] = "yfence"}
               ticks == {j \in 1..Len(t) : t[j] \in {"fence", "yfence"}}
           IN  /\ opens = {} => /\ ~call.pre.ok
                                /\ call.pre.err = "No YAML block found"
                                /\ call.pc = "raised"
               /\ \A i \in opens, j \in ticks :
                     ((\A k \in opens : i <= k) /\ (\A k \in ticks : k <= j))
                        => /\ call.pre.ok
                           /\ call.pre.block = Between(t, i, j)
                           /\ j = i => /\ call.pc = "raised"
                                       /\ call.err = "YAML block is empty"
                                       /\ call.doc = NULL

\* the text has a triple backtick inside its block: the block runs up to the
\* last one, and does not load
C33_Witness ==
    /\ call.pc = "repair"
    /\ call.repairs = 0
    /\ call.text = <<"yfence", "fence", "fence">>
    /\ call.pre.block = <<"fence">>


\* C39: for every max_attempts >= 0 that the caller passes, the call makes
\* at most that many repair calls, and every repair call is made with the
\* tracing config that the caller passed.
C39_RepairsBoundedByArgument ==
    /\ call.repairs <= call.given
    /\ \A k \in 1..Len(call.traced) : call.traced[k]


\* C34: in the live request that a run composes, every static segment of
\* the text (rules, knowledge base, guidelines, instructions, output format)
\* stands before every placeholder that is filled with a value of the run
\* (today, up_to_date, plan_url, profile).
C34_StaticBeforeVariable ==
    win.pc = "computed"
        => LET live == win.first.messages[Len(win.first.messages)].content.template
           IN  \A i, j \in 1..Len(live) :
                  (live[i] \notin Placeholders /\ live[j] \in Placeholders) => i < j

\* the body of a request fails validate_completion_status or
\* validate_difficulty
InvalidBody(data) == ~PatchValid(Writable(Popped(data)))

\* C35: a PATCH whose difficulty is outside 1..10 or whose completion_status
\* is not one of the four choices is answered 400 by its first step after
\* get_object; that step changes no field of any Workout and makes no
\* tracking call, and no request is answered 400 for another reason.
C35_InvalidPatchRejected ==
    [][\A c \in Clients :
          /\ (inflight[c].pc = "got" /\ InvalidBody(inflight[c].data)
                 /\ inflight'[c] # inflight[c])
                => /\ inflight'[c].pc = "done"
                   /\ inflight'[c].status = 400
                   /\ inflight'[c].event = "none"
                   /\ workouts' = workouts
          /\ inflight'[c].status = 400 => InvalidBody(inflight'[c].data)
          /\ (inflight'[c].pc = "done" /\ InvalidBody(inflight'[c].data))
                => inflight'[c].status = 400]_vars

\* a request with difficulty 11 and a valid status was answered 400 and the
\* Workout still has the status and the difficulty that an earlier request
\* gave it
C35_Witness ==
    \E c \in Clients : /\ inflight[c].pc = "done"
                       /\ inflight[c].status = 400
                       /\ inflight[c].data.has = {"completion_status", "difficulty"}
                       /\ inflight[c].data.difficulty = 11
                       /\ inflight[c].data.completion_status = "not_completed"
                       /\ inflight[c].instance.completion_status = "completed"
                       /\ workouts[inflight[c].workout].completion_status = "completed"
                       /\ workouts[inflight[c].workout].difficulty = 10

\* C36: a PATCH answered 200 has made the tracking call if and only if the
\* Workout it loaded was not_completed and its body sets another status.
C36_EventExactlyOnStatusChange ==
    \A c \in Clients :
        (inflight[c].pc = "done" /\ inflight[c].status = 200)
            => (inflight[c].event # "none"
                  <=> /\ inflight[c].original = "not_completed"
                      /\ "completion_status" \in inflight[c].data.has
                      /\ inflight[c].data.completion_status # "not_completed")


\* C37: every Plan that is in progress eventually becomes completed or
\* error, whatever requests were made at the same time, whether the entry
\* guard aborted a run and whether the submission to the pool failed.
C37_EveryPlanBecomesTerminal ==
    \A p \in 1..MaxPlans :
        (p \in PlanIds /\ InProgress(plans[p])) ~> (p \in PlanIds /\ Terminal(plans[p]))

\* C38: a thread that has returned from TrainingPlanThreadManager() holds an
\* instance whose _executor is already assigned, under every interleaving of
\* concurrent first calls.
C38_ReturnedInstanceHasExecutor ==
    \A t \in Threads :
        (mgr.tpc[t] = "done" /\ mgr.got[t] # 0) => mgr.executor # 0

\* C40: no Plan created by an accepted generate request ends in error on the
\* orchestrator's input validation (first name, profile, completed
\* onboarding); the user records are fixed for the whole behaviour.
C40_AcceptedPlanPassesValidation ==
    \A p \in PlanIds : plans[p].error # "ValidationError"

====
